---- MODULE Spec2Model ----
(***************************************************************************)
(* A model of dhybridrpy/tracks.py: the Track / TrackCollection lazy       *)
(* loading and caching layer over one HDF5 track file.                     *)
(*                                                                         *)
(* Strings whose characters matter (track IDs, which are split on '-' and  *)
(* parsed as integers) are sequences of one-character strings.  Dataset    *)
(* names are only compared and tested for a leading underscore; they are   *)
(* sequences of characters too.                                            *)
(***************************************************************************)
EXTENDS Integers, Sequences, FiniteSets, TLC

(***************************************************************************)
(* Python built-ins used by the code                                       *)
(***************************************************************************)

Digits == {"0", "1", "2", "3", "4", "5", "6", "7", "8", "9"}

DigitVal(c) ==
    CASE c = "0" -> 0 [] c = "1" -> 1 [] c = "2" -> 2 [] c = "3" -> 3
      [] c = "4" -> 4 [] c = "5" -> 5 [] c = "6" -> 6 [] c = "7" -> 7
      [] c = "8" -> 8 [] c = "9" -> 9

\* str.split(sep): the pieces between the occurrences of sep, empty pieces kept.
RECURSIVE SplitFrom(_, _, _, _)
SplitFrom(s, sep, i, cur) ==
    IF i > Len(s) THEN <<cur>>
    ELSE IF s[i] = sep THEN <<cur>> \o SplitFrom(s, sep, i + 1, <<>>)
    ELSE SplitFrom(s, sep, i + 1, Append(cur, s[i]))

Split(s, sep) == SplitFrom(s, sep, 1, <<>>)

\* int(s) over the alphabet of the model (digits, letters, no sign or blank):
\* a non-empty string of digits is its decimal value, anything else raises
\* ValueError.
RECURSIVE DecimalValue(_, _)
DecimalValue(s, acc) ==
    IF s = <<>> THEN acc ELSE DecimalValue(Tail(s), 10 * acc + DigitVal(Head(s)))

IntOk(s) == s # <<>> /\ \A i \in 1..Len(s) : s[i] \in Digits

Int_(s) == DecimalValue(s, 0)

\* Python's comparison of two tuples of integers: a < b.
RECURSIVE TupleLess(_, _)
TupleLess(a, b) ==
    IF a = <<>> THEN b # <<>>
    ELSE IF b = <<>> THEN FALSE
    ELSE IF Head(a) # Head(b) THEN Head(a) < Head(b)
    ELSE TupleLess(Tail(a), Tail(b))

\* Python's order of characters (code points), for str < str.
Ord(c) ==
    CASE c \in Digits -> 48 + DigitVal(c)
      [] c = "-" -> 45 [] c = "_" -> 95 [] c = "a" -> 97 [] c = "e" -> 101
      [] c = "h" -> 104 [] c = "n" -> 110 [] c = "p" -> 112
      [] c = "x" -> 120 [] c = "z" -> 122

RECURSIVE StrLess(_, _)
StrLess(a, b) ==
    IF a = <<>> THEN b # <<>>
    ELSE IF b = <<>> THEN FALSE
    ELSE IF Head(a) # Head(b) THEN Ord(Head(a)) < Ord(Head(b))
    ELSE StrLess(Tail(a), Tail(b))

(***************************************************************************)
(* TrackCollection.track_ids: the sort                                     *)
(***************************************************************************)

\* The key function of the sort: lambda x: tuple(map(int, x.split('-'))).
KeyOk(x) == \A i \in 1..Len(Split(x, "-")) : IntOk(Split(x, "-")[i])

SortKey(x) == [i \in 1..Len(Split(x, "-")) |-> Int_(Split(x, "-")[i])]

\* A sort without the key function: ids.sort(), which compares the strings.
RECURSIVE InsertByKey_NoKey(_, _)
InsertByKey_NoKey(sorted, x) ==
    IF sorted = <<>> THEN <<x>>
    ELSE IF StrLess(x, Head(sorted))
         THEN <<x>> \o sorted
         ELSE <<Head(sorted)>> \o InsertByKey_NoKey(Tail(sorted), x)

\* list.sort(key=...) is stable: an element goes after every element whose
\* key is not greater than its own.
RECURSIVE InsertByKey(_, _)
InsertByKey(sorted, x) ==
    IF sorted = <<>> THEN <<x>>
    ELSE IF TupleLess(SortKey(x), SortKey(Head(sorted)))
         THEN <<x>> \o sorted
         ELSE <<Head(sorted)>> \o InsertByKey(Tail(sorted), x)

RECURSIVE SortIds(_)
SortIds(ids) ==
    IF ids = <<>> THEN <<>>
    ELSE InsertByKey(SortIds(SubSeq(ids, 1, Len(ids) - 1)), ids[Len(ids)])

\* list.sort calls the key function on every element before it compares any.
AllKeysOk(ids) == \A i \in 1..Len(ids) : KeyOk(ids[i])

(***************************************************************************)
(* The backing file and the names the model draws from                     *)
(***************************************************************************)

\* Track IDs (top-level group names) of the model.
ID_0_1   == <<"0", "-", "1">>
ID_0_01  == <<"0", "-", "0", "1">>
ID_0_10  == <<"0", "-", "1", "0">>
ID_1_2   == <<"1", "-", "2">>
ID_2_5   == <<"2", "-", "5">>
ID_10_1  == <<"1", "0", "-", "1">>
ID_9_9   == <<"9", "-", "9">>
ID_5     == <<"5">>
ID_1_2_3 == <<"1", "-", "2", "-", "3">>
ID_a_1   == <<"a", "-", "1">>
ID_1_    == <<"1", "-">>

\* Dataset names of the model: a canonical one with a convenience accessor
\* (one group holds it, another does not), an extra one, one with a leading
\* underscore, and one no group holds.
DS_x1 == <<"x", "1">>
DS_en == <<"e", "n">>
DS__h == <<"_", "h">>
DS_zz == <<"z", "z">>

Names == {DS_x1, DS_en, DS__h, DS_zz}

\* The six names that Track defines as properties.
Props == {<<"x", "1">>, <<"x", "2">>, <<"x", "3">>,
          <<"p", "1">>, <<"p", "2">>, <<"p", "3">>}

Range(s) == {s[i] : i \in 1..Len(s)}

\* The datasets of a group, in the order the file lists them, and the
\* array stored under each: its shape, element type and content.
GroupKeys(g) ==
    IF g = ID_10_1 THEN <<DS_x1, DS__h, DS_en>>
    ELSE IF g = ID_2_5 THEN <<DS_en>>
    ELSE <<>>

Stored(g, k) ==
    [shape |-> <<2>>, dtype |-> "f8",
     data  |-> <<Len(g), IF k = DS_x1 THEN 1 ELSE IF k = DS_en THEN 2 ELSE 3>>]

\* The file with the top-level groups `ids`, in the order the file lists them.
FileOf(ids) ==
    [ids    |-> ids,
     groups |-> [g \in Range(ids) |->
                   [keys |-> GroupKeys(g),
                    data |-> [k \in Range(GroupKeys(g)) |-> Stored(g, k)]]]]

\* What the environment does to one `with h5py.File(...)` block: it lets it
\* run, fails the open, or fails a read inside the block.
IoOutcomes == {"ok", "open_fails", "body_fails"}

\* The outcomes of the blocks an operation may run, in order.  A failure
\* ends every operation of the code, so a plan fails at most one block.
IoPlans(k) ==
    {p \in [1..k -> IoOutcomes] : Cardinality({i \in 1..k : p[i] # "ok"}) <= 1}

\* d[k] = v on a Python dict.
Put(d, k, v) == (k :> v) @@ d

None == <<>>
Some(x) == <<x>>

Ok(v) == [kind |-> "ok", val |-> v]
Raise(exc, fmt, args) == [kind |-> "raise", exc |-> exc, fmt |-> fmt, args |-> args]
Raised(r, exc) == r.kind = "raise" /\ r.exc = exc

IoError(what) == Raise("OSError", "h5py: {what}", [what |-> what])

(***************************************************************************)
(* State                                                                   *)
(***************************************************************************)

VARIABLES
    file,       \* the content of the HDF5 file at file_path (never written)
    coll,       \* the TrackCollection: file_path, species, lazy, track_ids
    tracks,     \* TrackCollection._tracks: track ID -> the Track cached under it
    handles,    \* the number of open handles on the file
    made,       \* objects created so far per slot: what tells two objects apart
    last,       \* the last operation: what was called, what it returned,
                \* and the file accesses it made, in order
    since,      \* per Track, the calls made on it since it was constructed,
                \* while they are successful _load_dataset calls of one key
    tasks,      \* the calls of loader() that a scheduler runs step by step
    fds         \* the handles those calls hold open on the file

vars == <<file, coll, tracks, handles, made, last, since, tasks, fds>>

FilePath == "tracks.h5"

(***************************************************************************)
(* File access                                                             *)
(***************************************************************************)

\* A block that closes its handle only on the normal path: f = h5py.File(...)
\* with f.close() after the reads, and no `with` or `finally`.
WithFile_NoCloseOnError(io, body) ==
    CASE io = "open_fails" -> <<"open_fail">>
      [] io = "body_fails" -> <<"open", "fail">>
      [] OTHER             -> <<"open">> \o body \o <<"close">>

\* One `with h5py.File(self.file_path, 'r') as f:` block whose body makes the
\* accesses `body`: the accesses that happen under outcome `io`.  Leaving the
\* block closes the handle, also when the body raises.
WithFile(io, body) ==
    CASE io = "open_fails" -> <<"open_fail">>
      [] io = "body_fails" -> <<"open", "fail", "close">>
      [] OTHER             -> <<"open">> \o body \o <<"close">>

Count(events, e) == Cardinality({i \in 1..Len(events) : events[i] = e})

Opens(events) == Count(events, "open")
Closes(events) == Count(events, "close")

(***************************************************************************)
(* Track                                                                   *)
(***************************************************************************)

\* A constructor call that does not pass `lazy` on: the Track is eager.
Track_init_LazyDefault(file_path, group_name, track_id, species, lazy, n) ==
    [oid            |-> [cls |-> "Track", slot |-> track_id, n |-> n],
     file_path      |-> file_path,
     track_id       |-> track_id,
     species        |-> species,
     lazy           |-> FALSE,
     group_name     |-> group_name,
     data_cache     |-> << >>,
     available_keys |-> None]

\* Track.__init__: `n` makes the new object distinct from every earlier one.
Track_init(file_path, group_name, track_id, species, lazy, n) ==
    [oid            |-> [cls |-> "Track", slot |-> track_id, n |-> n],
     file_path      |-> file_path,
     track_id       |-> track_id,
     species        |-> species,
     lazy           |-> lazy,
     group_name     |-> group_name,
     data_cache     |-> << >>,
     available_keys |-> None]

\* _get_available_keys with `if not self._available_keys`: an empty list
\* counts as not read yet.
get_available_keys_Truthiness(t, io) ==
    IF t.available_keys = None \/ t.available_keys = Some(<<>>)
    THEN IF io = "ok"
         THEN [t   |-> [t EXCEPT !.available_keys = Some(file.groups[t.group_name].keys)],
               ret |-> Ok(file.groups[t.group_name].keys),
               io  |-> WithFile(io, <<"keys">>)]
         ELSE [t |-> t, ret |-> IoError(io), io |-> WithFile(io, <<"keys">>)]
    ELSE [t |-> t, ret |-> Ok(t.available_keys[1]), io |-> <<>>]

\* Track._get_available_keys.  Every method below yields the Track after the
\* call (t), what the call returned or raised (ret) and its file accesses (io).
get_available_keys(t, io) ==
    IF t.available_keys = None
    THEN IF io = "ok"
         THEN [t   |-> [t EXCEPT !.available_keys = Some(file.groups[t.group_name].keys)],
               ret |-> Ok(file.groups[t.group_name].keys),
               io  |-> WithFile(io, <<"keys">>)]
         ELSE [t |-> t, ret |-> IoError(io), io |-> WithFile(io, <<"keys">>)]
    ELSE [t |-> t, ret |-> Ok(t.available_keys[1]), io |-> <<>>]

\* The array that `f[group][key][:]` reads: a new ndarray holding the content.
NdArray(t, key, n) ==
    [oid  |-> [cls |-> "ndarray", slot |-> <<t.track_id, key>>, n |-> n],
     cls  |-> "ndarray",
     data |-> file.groups[t.group_name].data[key].data]

\* da.from_delayed(delayed(loader)(), shape, dtype) with loader(k=key): the
\* deferred array remembers the key it was made for, and the Track (self).
DaskArray(t, key, n) ==
    [oid    |-> [cls |-> "dask", slot |-> <<t.track_id, key>>, n |-> n],
     cls    |-> "dask",
     shape  |-> file.groups[t.group_name].data[key].shape,
     dtype  |-> file.groups[t.group_name].data[key].dtype,
     loader |-> [self |-> t.track_id, k |-> key]]

\* A lazy branch that puts a placeholder in the cache before it reads the
\* metadata, and leaves it there when the read fails.
load_lazy_CachesFirst(t, key, io, n) ==
    [t   |-> [t EXCEPT !.data_cache = Put(@, key, DaskArray(t, key, n))],
     ret |-> IF io = "ok" THEN Ok(DaskArray(t, key, n)) ELSE IoError(io),
     io  |-> WithFile(io, <<"shape", "dtype">>)]

\* Track._load_dataset, lazy branch: a block that reads the shape and the
\* element type, then the deferred array is made and cached.
load_lazy(t, key, io, n) ==
    IF io = "ok"
    THEN [t   |-> [t EXCEPT !.data_cache = Put(@, key, DaskArray(t, key, n))],
          ret |-> Ok(DaskArray(t, key, n)),
          io  |-> WithFile(io, <<"shape", "dtype">>)]
    ELSE [t |-> t, ret |-> IoError(io), io |-> WithFile(io, <<"shape", "dtype">>)]

\* An eager branch that looks at the shape in a block of its own before it
\* reads the content in a second one.
load_eager_TwoBlocks(t, key, io, n) ==
    IF io = "ok"
    THEN [t   |-> [t EXCEPT !.data_cache = Put(@, key, NdArray(t, key, n))],
          ret |-> Ok(NdArray(t, key, n)),
          io  |-> WithFile(io, <<"shape">>) \o WithFile(io, <<"read">>)]
    ELSE [t |-> t, ret |-> IoError(io), io |-> WithFile(io, <<"shape">>)]

\* Track._load_dataset, eager branch: a block that reads the content into
\* the cache.
load_eager(t, key, io, n) ==
    IF io = "ok"
    THEN [t   |-> [t EXCEPT !.data_cache = Put(@, key, NdArray(t, key, n))],
          ret |-> Ok(NdArray(t, key, n)),
          io  |-> WithFile(io, <<"read">>)]
    ELSE [t |-> t, ret |-> IoError(io), io |-> WithFile(io, <<"read">>)]

\* A _load_dataset that asks the file for the key in the block that reads it
\* and never lists the group.
load_uncached_NoKeyList(t, key, io1, io2, n) ==
    IF io2 = "ok" /\ key \notin Range(file.groups[t.group_name].keys)
    THEN [t   |-> t,
          ret |-> Raise("AttributeError",
                        "Dataset '{key}' not available for track {self.track_id}. ",
                        [key |-> key, track_id |-> t.track_id]),
          io  |-> <<"open", "close">>]
    ELSE IF t.lazy THEN load_lazy(t, key, io2, n) ELSE load_eager(t, key, io2, n)

\* Track._load_dataset for a key that is not in the cache.  io1 is the outcome
\* of the block that lists the keys, io2 of the block that reads the dataset,
\* should the call reach them.
load_uncached(t, key, io1, io2, n) ==
    LET ak == get_available_keys(t, io1) IN
    IF ak.ret.kind = "raise" THEN ak
    ELSE IF key \notin Range(ak.ret.val)
    THEN [t   |-> ak.t,
          ret |-> Raise("AttributeError",
                        "Dataset '{key}' not available for track {self.track_id}. ",
                        [key |-> key, track_id |-> t.track_id]),
          io  |-> ak.io]
    ELSE LET r == IF t.lazy THEN load_lazy(ak.t, key, io2, n)
                            ELSE load_eager(ak.t, key, io2, n) IN
         [t |-> r.t, ret |-> r.ret, io |-> ak.io \o r.io]

\* _load_dataset without `if key not in self._data_cache`: every call reads.
load_dataset_NoCacheCheck(t, key, io1, io2, n) == load_uncached(t, key, io1, io2, n)

\* Track._load_dataset.
load_dataset(t, key, io1, io2, n) ==
    IF key \notin DOMAIN t.data_cache
    THEN load_uncached(t, key, io1, io2, n)
    ELSE [t |-> t, ret |-> Ok(t.data_cache[key]), io |-> <<>>]

StartsWithUnderscore(name) == name # <<>> /\ name[1] = "_"

NoAttribute(name) ==
    Raise("AttributeError",
          "'{type(self).__name__}' object has no attribute '{name}'",
          [type |-> "Track", name |-> name])

\* __getattr__ without the try/except: the error of _load_dataset passes through.
getattr_NoRewrap(t, name, io1, io2, n) ==
    IF StartsWithUnderscore(name)
    THEN [t |-> t, ret |-> NoAttribute(name), io |-> <<>>]
    ELSE load_dataset(t, name, io1, io2, n)

\* __getattr__ with a message of its own for the reserved names.
getattr_ReservedMessage(t, name, io1, io2, n) ==
    IF StartsWithUnderscore(name)
    THEN [t |-> t,
          ret |-> Raise("AttributeError", "'{name}' is a reserved name",
                        [type |-> "Track", name |-> name]),
          io |-> <<>>]
    ELSE LET r == load_dataset(t, name, io1, io2, n) IN
         IF Raised(r.ret, "AttributeError")
         THEN [t |-> r.t, ret |-> NoAttribute(name), io |-> r.io]
         ELSE r

\* __getattr__ without `if name.startswith('_')`.
getattr_NoUnderscoreCheck(t, name, io1, io2, n) ==
    LET r == load_dataset(t, name, io1, io2, n) IN
    IF Raised(r.ret, "AttributeError")
    THEN [t |-> r.t, ret |-> NoAttribute(name), io |-> r.io]
    ELSE r

\* Track.__getattr__, which Python calls when the normal lookup of `name`
\* raised AttributeError.
getattr(t, name, io1, io2, n) ==
    IF StartsWithUnderscore(name)
    THEN [t |-> t, ret |-> NoAttribute(name), io |-> <<>>]
    ELSE LET r == load_dataset(t, name, io1, io2, n) IN
         IF Raised(r.ret, "AttributeError")
         THEN [t |-> r.t, ret |-> NoAttribute(name), io |-> r.io]
         ELSE r

\* The properties x1 .. p3: `return self._load_dataset('x1')`.  When the
\* property raises AttributeError, Python falls back to __getattr__, whose
\* blocks get the outcomes io3 and io4.
property(t, name, io1, io2, io3, io4, n) ==
    LET r == load_dataset(t, name, io1, io2, n) IN
    IF Raised(r.ret, "AttributeError")
    THEN LET g == getattr(r.t, name, io3, io4, n) IN
         [t |-> g.t, ret |-> g.ret, io |-> r.io \o g.io]
    ELSE r

RECURSIVE InsertStr(_, _)
InsertStr(sorted, x) ==
    IF sorted = <<>> THEN <<x>>
    ELSE IF StrLess(x, Head(sorted)) THEN <<x>> \o sorted
    ELSE <<Head(sorted)>> \o InsertStr(Tail(sorted), x)

RECURSIVE Sorted(_)
Sorted(keys) ==
    IF keys = <<>> THEN <<>>
    ELSE InsertStr(Sorted(SubSeq(keys, 1, Len(keys) - 1)), keys[Len(keys)])

\* __repr__ without sorted(): the names in the order of the file.
repr_Unsorted(t, io) ==
    LET ak == get_available_keys(t, io) IN
    IF ak.ret.kind = "raise" THEN ak
    ELSE [t   |-> ak.t,
          ret |-> Ok([fmt  |-> "Track (track_id={self.track_id}, species={self.species}):\n  {', '.join(sorted(keys))}",
                      args |-> [track_id |-> t.track_id, species |-> t.species,
                                keys |-> ak.ret.val]]),
          io  |-> ak.io]

\* Track.__repr__.
repr(t, io) ==
    LET ak == get_available_keys(t, io) IN
    IF ak.ret.kind = "raise" THEN ak
    ELSE [t   |-> ak.t,
          ret |-> Ok([fmt  |-> "Track (track_id={self.track_id}, species={self.species}):\n  {', '.join(sorted(keys))}",
                      args |-> [track_id |-> t.track_id, species |-> t.species,
                                keys |-> Sorted(ak.ret.val)]]),
          io  |-> ak.io]

\* A loader that closes over a variable a later load overwrites: it reads the
\* dataset of the last key of the group, whatever key it was made for.
loader_LateBinding(t, arr, io) ==
    IF io = "ok"
    THEN [ret |-> Ok(file.groups[t.group_name].data[
                       file.groups[t.group_name].keys[Len(file.groups[t.group_name].keys)]].data),
          io  |-> WithFile(io, <<"read">>)]
    ELSE [ret |-> IoError(io), io |-> WithFile(io, <<"read">>)]

\* Computing a deferred array runs its loader: a block of its own on the
\* Track's file, reading the dataset the loader was made for.
loader(t, arr, io) ==
    IF io = "ok"
    THEN [ret |-> Ok(file.groups[t.group_name].data[arr.loader.k].data),
          io  |-> WithFile(io, <<"read">>)]
    ELSE [ret |-> IoError(io), io |-> WithFile(io, <<"read">>)]

\* loader() step by step, as a scheduler thread runs it.  A call of loader is
\* a record: the Track (self) and the key (k) it was made with, where it
\* stands (pc), the handle its `with` statement bound (f, 0 before that), the
\* handle its read went through (via, 0 before that) and what it returned or
\* raised (ret).
Task(arr) ==
    [self |-> arr.loader.self, k |-> arr.loader.k,
     pc |-> "ready", f |-> 0, via |-> 0, ret |-> None]

\* h5py.File(...) makes a new handle object, told apart from every other one
\* by the call that made it: call i opens a file once.
NewHandle(i) == i

IsOpen(open, h) == \E g \in open : g.id = h

\* A loader that reads through a handle kept for all loaders: the oldest
\* handle that is open.
loader_handle_Shared(tk, open) ==
    IF open = {} THEN tk.f
    ELSE (CHOOSE g \in open : \A o \in open : g.id <= o.id).id

\* The handle that `f[self._group_name][k][:]` reads through: the `f` that the
\* `with` statement of this very call bound.
loader_handle(tk, open) == tk.f

\* `with h5py.File(self.file_path, 'r') as f:` of call i.
loader_open(t, tks, open, i, io) ==
    IF io = "ok"
    THEN [tks  |-> [tks EXCEPT ![i].pc = "opened", ![i].f = NewHandle(i)],
          open |-> open \cup {[id |-> NewHandle(i), path |-> t.file_path, mode |-> "r"]}]
    ELSE [tks  |-> [tks EXCEPT ![i].pc = "failed", ![i].ret = Some(IoError("open_fails"))],
          open |-> open]

\* `return f[self._group_name][k][:]` of call i: the value is computed, the
\* block is not left yet.  Reading through a handle that is closed raises.
loader_read(t, tks, open, i, io) ==
    LET h == loader_handle(tks[i], open) IN
    IF ~IsOpen(open, h)
    THEN [tks EXCEPT ![i].pc = "raised", ![i].via = h,
                     ![i].ret = Some(Raise("ValueError", "Invalid location identifier",
                                           [handle |-> h]))]
    ELSE IF io = "ok"
    THEN [tks EXCEPT ![i].pc = "read", ![i].via = h,
                     ![i].ret = Some(Ok(file.groups[t.group_name].data[tks[i].k].data))]
    ELSE [tks EXCEPT ![i].pc = "raised", ![i].via = h,
                     ![i].ret = Some(IoError("body_fails"))]

\* Leaving the `with` block of call i closes the handle it bound, whether the
\* body returned or raised.
loader_exit(tks, open, i) ==
    [tks  |-> [tks EXCEPT ![i].pc = IF tks[i].pc = "read" THEN "done" ELSE "failed"],
     open |-> {g \in open : g.id # tks[i].f}]

(***************************************************************************)
(* TrackCollection                                                         *)
(***************************************************************************)

\* TrackCollection.__init__.
TrackCollection_init(file_path, species, lazy) ==
    [file_path |-> file_path, species |-> species, lazy |-> lazy, track_ids |-> None]

\* The names of `ids` that the key function accepts, in order.
RECURSIVE Parseable(_)
Parseable(ids) ==
    IF ids = <<>> THEN <<>>
    ELSE IF KeyOk(Head(ids)) THEN <<Head(ids)>> \o Parseable(Tail(ids))
    ELSE Parseable(Tail(ids))

\* A track_ids that skips the names it cannot parse instead of raising.
track_ids_SkipsMalformed(c, io) ==
    IF c.track_ids = None
    THEN IF io # "ok"
         THEN [c |-> c, ret |-> IoError(io), io |-> WithFile(io, <<"keys">>)]
         ELSE [c   |-> [c EXCEPT !.track_ids = Some(SortIds(Parseable(file.ids)))],
               ret |-> Ok(SortIds(Parseable(file.ids))),
               io  |-> WithFile(io, <<"keys">>)]
    ELSE [c |-> c, ret |-> Ok(c.track_ids[1]), io |-> <<>>]

\* The property TrackCollection.track_ids: the collection after the call (c),
\* what it returned or raised (ret) and its file accesses (io).
track_ids(c, io) ==
    IF c.track_ids = None
    THEN IF io # "ok"
         THEN [c |-> c, ret |-> IoError(io), io |-> WithFile(io, <<"keys">>)]
         ELSE IF ~AllKeysOk(file.ids)
         THEN [c   |-> c,
               ret |-> Raise("ValueError", "invalid literal for int() with base 10",
                             [ids |-> file.ids]),
               io  |-> WithFile(io, <<"keys">>)]
         ELSE [c   |-> [c EXCEPT !.track_ids = Some(SortIds(file.ids))],
               ret |-> Ok(SortIds(file.ids)),
               io  |-> WithFile(io, <<"keys">>)]
    ELSE [c |-> c, ret |-> Ok(c.track_ids[1]), io |-> <<>>]

\* __getitem__ without the membership test: a Track for whatever ID is asked.
getitem_uncached_NoMembershipTest(c, trs, track_id, io, n) ==
    LET ti == track_ids(c, io) IN
    IF ti.ret.kind = "raise"
    THEN [c |-> ti.c, trs |-> trs, ret |-> ti.ret, io |-> ti.io]
    ELSE LET new == Track_init(c.file_path, track_id, track_id, c.species, c.lazy, n) IN
         [c   |-> ti.c, trs |-> Put(trs, track_id, new),
          ret |-> Ok(new.oid), io |-> ti.io]

\* TrackCollection.__getitem__ for an ID that is not in _tracks: also the
\* _tracks mapping after the call (trs); a returned Track is given by its
\* identity.
getitem_uncached(c, trs, track_id, io, n) ==
    LET ti == track_ids(c, io) IN
    IF ti.ret.kind = "raise"
    THEN [c |-> ti.c, trs |-> trs, ret |-> ti.ret, io |-> ti.io]
    ELSE IF track_id \notin Range(ti.ret.val)
    THEN [c   |-> ti.c, trs |-> trs,
          ret |-> Raise("KeyError",
                        "Track ID '{track_id}' not found for species {self.species}.",
                        [track_id |-> track_id, species |-> c.species]),
          io  |-> ti.io]
    ELSE LET new == Track_init(c.file_path, track_id, track_id, c.species, c.lazy, n) IN
         [c   |-> ti.c, trs |-> Put(trs, track_id, new),
          ret |-> Ok(new.oid), io |-> ti.io]

\* __getitem__ without `if track_id not in self._tracks`: a new Track per lookup.
getitem_NoCacheCheck(c, trs, track_id, io, n) == getitem_uncached(c, trs, track_id, io, n)

\* TrackCollection.__getitem__.
getitem(c, trs, track_id, io, n) ==
    IF track_id \notin DOMAIN trs
    THEN getitem_uncached(c, trs, track_id, io, n)
    ELSE [c |-> c, trs |-> trs, ret |-> Ok(trs[track_id].oid), io |-> <<>>]

(***************************************************************************)
(* The operations as steps of the program                                  *)
(***************************************************************************)

\* Bounds of the model.
MaxMade   == 2    \* objects made per slot (the code makes at most one)
MaxGroups == 3    \* top-level groups of a file drawn for the sort

\* The files of the main specification, groups in the file's (name) order:
\* two files of well-formed IDs, one of them with a group that holds no
\* dataset, and a file with an ID that is not a number.
Listings == {<<ID_10_1, ID_2_5>>, <<ID_0_1, ID_2_5>>, <<ID_2_5, ID_a_1>>}

\* The track IDs a caller asks for.
IdPool == {ID_10_1, ID_2_5, ID_0_1, ID_a_1, ID_9_9}

Species == 1

Called(op, id, key, r) == [op |-> op, id |-> id, key |-> key, ret |-> r.ret, io |-> r.io]

\* The number of objects made so far for a slot of `counts`.
Made(counts, slot) == IF slot \in DOMAIN counts THEN counts[slot] ELSE 0

\* The call made a new object, the n-th of its slot.
IsNew(r, n) == r.ret.kind = "ok" /\ r.ret.val.n = n

\* The calls on a Track since its construction: none yet (fresh); only
\* successful _load_dataset calls of `key`, `calls` of them, which opened the
\* file `opens` times between them (loads); or anything else (other).
NoCalls == [st |-> "fresh", key |-> <<>>, calls |-> 0, opens |-> 0]
OtherCalls == [st |-> "other", key |-> <<>>, calls |-> 0, opens |-> 0]

AfterCall(s, op, key, r) ==
    IF /\ op = "load_dataset"
       /\ r.ret.kind = "ok"
       /\ s.st = "fresh" \/ (s.st = "loads" /\ s.key = key /\ s.calls < 2)
    THEN [st |-> "loads", key |-> key, calls |-> s.calls + 1,
          opens |-> s.opens + Opens(r.io)]
    ELSE OtherCalls

InitWith(f, lazy) ==
    /\ file = f
    /\ coll = TrackCollection_init(FilePath, Species, lazy)
    /\ tracks = << >>
    /\ handles = 0
    /\ made = [trk |-> << >>, arr |-> << >>]
    /\ last = [op |-> "init", id |-> <<>>, key |-> <<>>, ret |-> Ok(<<>>), io |-> <<>>]
    /\ since = << >>
    /\ tasks = << >>
    /\ fds = {}

Init == \E l \in Listings, lazy \in BOOLEAN : InitWith(FileOf(l), lazy)

\* collection.track_ids
TrackIds(io) ==
    LET r == track_ids(coll, io) IN
    /\ coll' = r.c
    /\ handles' = handles + Opens(r.io) - Closes(r.io)
    /\ last' = Called("track_ids", <<>>, <<>>, r)
    /\ UNCHANGED <<file, tracks, made, since, tasks, fds>>

\* collection[track_id]
GetItem(track_id, io) ==
    /\ Made(made.trk, track_id) < MaxMade
    /\ LET n == Made(made.trk, track_id)
           r == getitem(coll, tracks, track_id, io, n) IN
       /\ coll' = r.c
       /\ tracks' = r.trs
       /\ handles' = handles + Opens(r.io) - Closes(r.io)
       /\ made' = IF IsNew(r, n) THEN [made EXCEPT !.trk = Put(@, track_id, n + 1)] ELSE made
       /\ last' = Called("getitem", track_id, <<>>, r)
       /\ since' = IF IsNew(r, n) THEN Put(since, track_id, NoCalls) ELSE since
       /\ UNCHANGED <<file, tasks, fds>>

\* A step of one Track of the collection whose call yields r; n is the
\* number of arrays made so far for the dataset name the call is about.
TrackStep(op, id, key, r, n) ==
    /\ tracks' = [tracks EXCEPT ![id] = r.t]
    /\ handles' = handles + Opens(r.io) - Closes(r.io)
    /\ made' = IF r.ret.kind = "ok" /\ r.ret.val.oid.n = n
               THEN [made EXCEPT !.arr = Put(@, <<id, key>>, n + 1)] ELSE made
    /\ last' = Called(op, id, key, r)
    /\ since' = [since EXCEPT ![id] = AfterCall(@, op, key, r)]
    /\ UNCHANGED <<file, coll, tasks, fds>>

\* track._get_available_keys()
GetAvailableKeys(id, io) ==
    /\ id \in DOMAIN tracks
    /\ LET r == get_available_keys(tracks[id], io) IN
       /\ tracks' = [tracks EXCEPT ![id] = r.t]
       /\ handles' = handles + Opens(r.io) - Closes(r.io)
       /\ last' = Called("get_available_keys", id, <<>>, r)
       /\ since' = [since EXCEPT ![id] = OtherCalls]
       /\ UNCHANGED <<file, coll, made, tasks, fds>>

\* track._load_dataset(key)
LoadDataset(id, key, io1, io2) ==
    /\ id \in DOMAIN tracks
    /\ Made(made.arr, <<id, key>>) < MaxMade
    /\ LET n == Made(made.arr, <<id, key>>) IN
       TrackStep("load_dataset", id, key, load_dataset(tracks[id], key, io1, io2, n), n)

\* track.x1 .. track.p3
PropertyGet(id, name, io1, io2, io3, io4) ==
    /\ id \in DOMAIN tracks
    /\ name \in Props
    /\ Made(made.arr, <<id, name>>) < MaxMade
    /\ LET n == Made(made.arr, <<id, name>>) IN
       TrackStep("property", id, name,
                 property(tracks[id], name, io1, io2, io3, io4, n), n)

\* track.<name> for a name the class and the instance do not define
AttrGet(id, name, io1, io2) ==
    /\ id \in DOMAIN tracks
    /\ name \notin Props
    /\ Made(made.arr, <<id, name>>) < MaxMade
    /\ LET n == Made(made.arr, <<id, name>>) IN
       TrackStep("getattr", id, name, getattr(tracks[id], name, io1, io2, n), n)

\* repr(track)
ReprTrack(id, io) ==
    /\ id \in DOMAIN tracks
    /\ LET r == repr(tracks[id], io) IN
       /\ tracks' = [tracks EXCEPT ![id] = r.t]
       /\ handles' = handles + Opens(r.io) - Closes(r.io)
       /\ last' = Called("repr", id, <<>>, r)
       /\ since' = [since EXCEPT ![id] = OtherCalls]
       /\ UNCHANGED <<file, coll, made, tasks, fds>>

\* track.<key>.compute() on a cached deferred array
ComputeArray(id, key, io) ==
    /\ id \in DOMAIN tracks
    /\ key \in DOMAIN tracks[id].data_cache
    /\ tracks[id].data_cache[key].cls = "dask"
    /\ LET arr == tracks[id].data_cache[key]
           r == loader(tracks[arr.loader.self], arr, io) IN
       /\ handles' = handles + Opens(r.io) - Closes(r.io)
       /\ last' = Called("compute", id, key, r)
       /\ UNCHANGED <<file, coll, tracks, made, since, tasks, fds>>

Next ==
    \/ \E io \in IoOutcomes : TrackIds(io)
    \/ \E id \in IdPool, io \in IoOutcomes : GetItem(id, io)
    \/ \E id \in IdPool, io \in IoOutcomes : GetAvailableKeys(id, io)
    \/ \E id \in IdPool, key \in Names, io \in IoPlans(2) :
           LoadDataset(id, key, io[1], io[2])
    \/ \E id \in IdPool, key \in Names, io \in IoPlans(4) :
           PropertyGet(id, key, io[1], io[2], io[3], io[4])
    \/ \E id \in IdPool, key \in Names, io \in IoPlans(2) :
           AttrGet(id, key, io[1], io[2])
    \/ \E id \in IdPool, io \in IoOutcomes : ReprTrack(id, io)
    \/ \E id \in IdPool, key \in Names, io \in IoOutcomes : ComputeArray(id, key, io)

Spec == Init /\ [][Next]_vars

\* The sort on its own: the property track_ids over every file of at most
\* MaxGroups top-level groups with names from SortPool, in every order a file
\* may list them.
SortPool == {ID_0_1, ID_0_01, ID_0_10, ID_1_2, ID_2_5, ID_10_1,
             ID_5, ID_1_2_3, ID_a_1, ID_1_}

SortListings ==
    {l \in UNION {[1..n -> SortPool] : n \in 0..MaxGroups} :
        \A i, j \in 1..Len(l) : i # j => l[i] # l[j]}

InitSort == \E l \in SortListings, lazy \in BOOLEAN : InitWith(FileOf(l), lazy)

NextSort == \E io \in IoOutcomes : TrackIds(io)

SpecSort == InitSort /\ [][NextSort]_vars

\* Deferred arrays computed by the threads of a scheduler: a lazy collection,
\* lookups and loads that succeed, and calls of loader() that run one step at
\* a time, in every interleaving, each step under every outcome of its file
\* access.
MaxTasks == 2

ConcIds == {ID_10_1, ID_2_5}
ConcKeys == {DS_x1, DS_en}

\* array.compute(): the scheduler takes up a call of the array's loader.
Submit(id, key) ==
    /\ id \in DOMAIN tracks
    /\ key \in DOMAIN tracks[id].data_cache
    /\ tracks[id].data_cache[key].cls = "dask"
    /\ Len(tasks) < MaxTasks
    /\ tasks' = Append(tasks, Task(tracks[id].data_cache[key]))
    /\ UNCHANGED <<file, coll, tracks, handles, made, last, since, fds>>

TaskOpen(i, io) ==
    /\ i \in 1..Len(tasks)
    /\ tasks[i].pc = "ready"
    /\ LET r == loader_open(tracks[tasks[i].self], tasks, fds, i, io) IN
       /\ tasks' = r.tks
       /\ fds' = r.open
       /\ handles' = handles + Cardinality(r.open) - Cardinality(fds)
    /\ UNCHANGED <<file, coll, tracks, made, last, since>>

TaskRead(i, io) ==
    /\ i \in 1..Len(tasks)
    /\ tasks[i].pc = "opened"
    /\ tasks' = loader_read(tracks[tasks[i].self], tasks, fds, i, io)
    /\ UNCHANGED <<file, coll, tracks, handles, made, last, since, fds>>

TaskExit(i) ==
    /\ i \in 1..Len(tasks)
    /\ tasks[i].pc \in {"read", "raised"}
    /\ LET r == loader_exit(tasks, fds, i) IN
       /\ tasks' = r.tks
       /\ fds' = r.open
       /\ handles' = handles + Cardinality(r.open) - Cardinality(fds)
    /\ UNCHANGED <<file, coll, tracks, made, last, since>>

InitConc == InitWith(FileOf(<<ID_10_1, ID_2_5>>), TRUE)

NextConc ==
    \/ \E id \in ConcIds : GetItem(id, "ok")
    \/ \E id \in ConcIds, key \in ConcKeys : LoadDataset(id, key, "ok", "ok")
    \/ \E id \in ConcIds, key \in ConcKeys : Submit(id, key)
    \/ \E i \in 1..MaxTasks : TaskOpen(i, "ok") \/ TaskOpen(i, "open_fails")
    \/ \E i \in 1..MaxTasks : TaskRead(i, "ok") \/ TaskRead(i, "body_fails")
    \/ \E i \in 1..MaxTasks : TaskExit(i)

SpecConc == InitConc /\ [][NextConc]_vars


(***************************************************************************)
(* Properties                                                              *)
(***************************************************************************)

\* A name of the form "<int>-<int>", and its two integers.
WellFormedId(x) ==
    /\ Len(Split(x, "-")) = 2
    /\ IntOk(Split(x, "-")[1])
    /\ IntOk(Split(x, "-")[2])

RankOf(x) == Int_(Split(x, "-")[1])
TagOf(x) == Int_(Split(x, "-")[2])

IsPermutation(a, b) ==
    /\ Len(a) = Len(b)
    /\ \A x \in Range(a) \cup Range(b) :
           Cardinality({i \in 1..Len(a) : a[i] = x})
             = Cardinality({i \in 1..Len(b) : b[i] = x})

LoadOps == {"load_dataset", "property", "getattr"}

\* The operation made every file access it planned: no block of it failed.
NoIoFailure(events) == \A i \in 1..Len(events) : events[i] \notin {"open_fail", "fail"}

\* C1: over a file whose top-level names all have the form <int>-<int>,
\* track_ids is a permutation of exactly those names, each adjacent pair
\* a-b, c-d ordered (a,b) <= (c,d) as integers, and it is what the property
\* returns.
C1_TrackIdsSortedByIntegers ==
    (/\ coll.track_ids # None
     /\ \A i \in 1..Len(file.ids) : WellFormedId(file.ids[i]))
    => LET ids == coll.track_ids[1] IN
       /\ IsPermutation(ids, file.ids)
       /\ \A i \in 1..(Len(ids) - 1) :
              \/ RankOf(ids[i]) < RankOf(ids[i + 1])
              \/ /\ RankOf(ids[i]) = RankOf(ids[i + 1])
                 /\ TagOf(ids[i]) <= TagOf(ids[i + 1])
       /\ last.op = "track_ids" => last.ret = Ok(ids)

\* C1 witness: a file listing "10-1", "2-5", "0-10" has been sorted into
\* "0-10", "2-5", "10-1", which is not the order of the strings.
C1_Witness ==
    /\ file.ids = <<ID_10_1, ID_2_5, ID_0_10>>
    /\ coll.track_ids = Some(<<ID_0_10, ID_2_5, ID_10_1>>)
    /\ last.op = "track_ids"

\* C7: track_ids fails whenever a top-level name does not split on '-' into
\* exactly two integers: it never returns over a file holding such a name.
C7_MalformedIdFails ==
    (last.op = "track_ids" /\ last.ret.kind = "ok")
    => \A i \in 1..Len(file.ids) : WellFormedId(file.ids[i])

\* The dataset names of the group of the Track cached under `id`.
GroupNames(id) == Range(file.groups[tracks[id].group_name].keys)

\* The step kept every cached dataset: same names and more, same objects.
CacheKept ==
    \A id \in DOMAIN tracks : \A k \in DOMAIN tracks[id].data_cache :
        /\ id \in DOMAIN tracks'
        /\ k \in DOMAIN tracks'[id].data_cache
        /\ tracks'[id].data_cache[k] = tracks[id].data_cache[k]

\* The step was an access of a cached dataset by one of `ops`, and it
\* returned the cached object without opening the file.
HitReturnsCached(ops) ==
    (/\ last'.op \in ops
     /\ last'.id \in DOMAIN tracks
     /\ last'.key \in DOMAIN tracks[last'.id].data_cache)
    => /\ last'.ret.kind = "ok"
       /\ last'.ret.val = tracks[last'.id].data_cache[last'.key]
       /\ last'.io = <<>>

C3_TwoLoadsOpenOnce ==
    \A id \in DOMAIN since :
        (since[id].st = "loads" /\ since[id].calls = 2) => since[id].opens <= 1

\* C3 as amended: two calls load_dataset(k) on a freshly constructed Track
\* open the file at most twice between them (the first call once to list the
\* names and once to read k), and the second call does not open it.
C3_TwoLoadsOpenTwice ==
    \A id \in DOMAIN since :
        (since[id].st = "loads" /\ since[id].calls = 2)
        => /\ since[id].opens <= 2
           /\ (last.op = "load_dataset" /\ last.id = id) => last.io = <<>>

\* C3 witness: the second of two load_dataset(k) on a fresh Track returned.
C3_Witness ==
    /\ last.op = "load_dataset"
    /\ last.id \in DOMAIN since
    /\ since[last.id].st = "loads"
    /\ since[last.id].calls = 2
    /\ since[last.id].opens = 2

\* C4: a track ID maps to at most one Track: a cached Track is never replaced
\* or removed, a lookup of a cached ID returns that Track, and no second
\* Track is ever made for an ID.
C4_OneTrackPerId ==
    [][\A id \in DOMAIN tracks :
          /\ id \in DOMAIN tracks'
          /\ tracks'[id].oid = tracks[id].oid
          /\ Made(made'.trk, id) <= 1
          /\ (last'.op = "getitem" /\ last'.id = id)
             => last'.ret.kind = "ok" /\ last'.ret.val = tracks[id].oid]_vars

\* C4 witness: a lookup returned the cached Track, which had loaded data,
\* in a collection that holds another Track too.
C4_Witness ==
    /\ last.op = "getitem"
    /\ last.ret.kind = "ok"
    /\ last.io = <<>>
    /\ tracks[last.id].data_cache # << >>
    /\ Cardinality(DOMAIN tracks) = 2

\* The last operation asked a Track for a dataset name its group does not
\* hold, with no leading underscore, and no file access of it failed.
AbsentNameAsked(ops) ==
    /\ last.op \in ops
    /\ last.key \notin GroupNames(last.id)
    /\ ~StartsWithUnderscore(last.key)
    /\ NoIoFailure(last.io)

UnknownIdAsked ==
    /\ last.op = "getitem"
    /\ last.id \notin Range(file.ids)
    /\ NoIoFailure(last.io)

KeyErrorFor(ret, track_id) ==
    /\ Raised(ret, "KeyError")
    /\ ret.args = [track_id |-> track_id, species |-> coll.species]

\* C6 as stated: collection[t] for every t that is no top-level group name
\* raises KeyError with a message that gives the species and t.
C6_UnknownIdRaisesKeyError ==
    UnknownIdAsked => KeyErrorFor(last.ret, last.id)

\* C6 as amended: collection[t] for a t that is no top-level group name
\* raises KeyError with a message that gives the species and t when every
\* top-level name is integers separated by '-'; otherwise the ValueError of
\* the sort reaches the caller.  Either way the lookup makes no Track and
\* leaves the tracks mapping as it was.
C6_UnknownIdLookup ==
    [][(last'.op = "getitem" /\ last'.id \notin Range(file.ids))
       => /\ tracks' = tracks
          /\ made' = made
          /\ last'.ret.kind = "raise"
          /\ (NoIoFailure(last'.io) /\ AllKeysOk(file.ids))
             => KeyErrorFor(last'.ret, last'.id)
          /\ (NoIoFailure(last'.io) /\ ~AllKeysOk(file.ids))
             => Raised(last'.ret, "ValueError")]_vars

\* C6 witness: a lookup of an unknown ID raised KeyError in a collection
\* that holds a Track, after track_ids was cached.
C6_Witness ==
    /\ UnknownIdAsked
    /\ Raised(last.ret, "KeyError")
    /\ last.io = <<>>
    /\ tracks # << >>

\* What an eager Track over the same file returns for dataset k of the group
\* of Track t.
EagerContent(t, k) ==
    load_dataset(Track_init(t.file_path, t.group_name, t.track_id, t.species, FALSE, 0),
                 k, "ok", "ok", 0).ret.val.data

\* C8: a lazy load reads no content (shape and dtype only), caches and returns
\* the deferred array; computing the deferred array cached for k reads
\* dataset k once and yields what an eager Track returns for k.
C8_LazyDefersAndComputesItsKey ==
    /\ (/\ last.op \in LoadOps
        /\ last.ret.kind = "ok"
        /\ tracks[last.id].lazy)
       => /\ Count(last.io, "read") = 0
          /\ last.io \in {<<>>, <<"open", "shape", "dtype", "close">>,
                          <<"open", "keys", "close", "open", "shape", "dtype", "close">>}
          /\ last.ret.val.cls = "dask"
          /\ last.ret.val.loader.k = last.key
          /\ tracks[last.id].data_cache[last.key] = last.ret.val
    /\ (last.op = "compute" /\ last.ret.kind = "ok")
       => /\ last.ret.val = EagerContent(tracks[last.id], last.key)
          /\ last.io = <<"open", "read", "close">>

\* C8 witness: the deferred array of "en" was computed on a lazy Track that
\* has loaded all three of its datasets.
C8_Witness ==
    /\ last.op = "compute"
    /\ last.key = DS_en
    /\ last.ret.kind = "ok"
    /\ DOMAIN tracks[last.id].data_cache = {DS_x1, DS_en, DS__h}

\* After a failed file access the operation only closes what it has open.
NoRetry(events) ==
    \A i, j \in 1..Len(events) :
        (i < j /\ events[i] \in {"open_fail", "fail"}) => events[j] = "close"

\* C9: a failed load (name not available, or an I/O failure in the block that
\* lists the keys or in the block that reads) leaves every data_cache as it
\* was, the failure reaches the caller (the I/O error as it is), and the
\* operation does not access the file again after the failure.
C9_FailedLoadCachesNothing ==
    [][(last'.op \in LoadOps)
       => /\ last'.ret.kind = "raise"
             => \A id \in DOMAIN tracks :
                    tracks'[id].data_cache = tracks[id].data_cache
          /\ ~NoIoFailure(last'.io) => Raised(last'.ret, "OSError")
          /\ NoRetry(last'.io)
          /\ (NoIoFailure(last'.io) /\ last'.key \notin GroupNames(last'.id))
             => Raised(last'.ret, "AttributeError")]_vars

\* C9 witness: the read of a dataset failed on a Track that has another
\* dataset cached.
C9_Witness ==
    /\ last.op \in LoadOps
    /\ Raised(last.ret, "OSError")
    /\ last.io = <<"open", "fail", "close">>
    /\ tracks[last.id].data_cache # << >>
    /\ last.key \notin DOMAIN tracks[last.id].data_cache

\* C10: between operations no handle on the file is open, and every
\* operation, returned or raised, closed as many handles as it opened.
C10_NoHandleHeld ==
    /\ handles = 0
    /\ Opens(last.io) = Closes(last.io)

\* C10 witness: computing a deferred array failed inside its block, and the
\* handle it had opened is closed.
C10_Witness ==
    /\ last.op = "compute"
    /\ Raised(last.ret, "OSError")
    /\ Opens(last.io) = 1
    /\ handles = 0

\* What track.<name> raises on Track t for a reserved name and for a name
\* that is neither reserved nor in the file, every file access succeeding.
ReservedError(t) == getattr(t, DS__h, "ok", "ok", 0).ret
MissingError(t) == getattr(t, DS_zz, "ok", "ok", 0).ret

\* An attribute access that has just failed with AttributeError on a name
\* that does not start with an underscore.
MissingNameAsked(id) ==
    /\ last.op \in {"getattr", "property"}
    /\ last.id = id
    /\ ~StartsWithUnderscore(last.key)
    /\ Raised(last.ret, "AttributeError")

TrackOps == {"get_available_keys", "load_dataset", "property", "getattr", "repr"}

\* C13: once a Track holds its list of dataset names, the list never changes
\* and no later operation on the Track lists the group again: a direct call
\* returns the held list without opening the file, repr shows it without
\* opening the file, and a load opens the file for the dataset only.  This
\* includes the empty list of a group without datasets.
C13_KeysReadOnce ==
    [][\A id \in DOMAIN tracks :
          tracks[id].available_keys # None =>
              /\ tracks'[id].available_keys = tracks[id].available_keys
              /\ (last'.op \in TrackOps /\ last'.id = id) =>
                     /\ Count(last'.io, "keys") = 0
                     /\ last'.op = "get_available_keys" =>
                            /\ last'.ret = Ok(tracks[id].available_keys[1])
                            /\ last'.io = <<>>
                     /\ last'.op = "repr" =>
                            /\ last'.ret.kind = "ok"
                            /\ last'.ret.val.args.keys = Sorted(tracks[id].available_keys[1])
                            /\ last'.io = <<>>]_vars

\* The empty list of a group without datasets came back from the cache.
C13_Witness ==
    /\ last.op = "get_available_keys"
    /\ last.id = ID_0_1
    /\ last.ret = Ok(<<>>)
    /\ last.io = <<>>
    /\ tracks[ID_0_1].available_keys = Some(<<>>)

\* C14: on every Track, every name in data_cache is in available_keys, so
\* available_keys is set whenever data_cache is not empty; and a load that
\* returned an array was for a name in available_keys.
C14_CachedNamesAreAvailable ==
    \A id \in DOMAIN tracks :
        /\ tracks[id].data_cache # << >> => tracks[id].available_keys # None
        /\ \A k \in DOMAIN tracks[id].data_cache :
               k \in Range(tracks[id].available_keys[1])
        /\ (last.op \in LoadOps /\ last.id = id /\ last.ret.kind = "ok") =>
               /\ tracks[id].available_keys # None
               /\ last.key \in Range(tracks[id].available_keys[1])

\* A load answered from data_cache, for a name that available_keys holds.
C14_Witness ==
    /\ last.op = "load_dataset"
    /\ last.id = ID_10_1
    /\ last.key = DS__h
    /\ last.ret.kind = "ok"
    /\ last.io = <<>>
    /\ DOMAIN tracks[ID_10_1].data_cache = {DS__h, DS_en}
    /\ tracks[ID_10_1].available_keys = Some(GroupKeys(ID_10_1))

\* C15: every entry id -> T of the collection's tracks has id in track_ids,
\* T.track_id = id, T's group name = id, and the collection's file_path and
\* species; T is put there by collection[id] with the collection's lazy mode
\* of that moment, with available_keys unset and an empty data_cache, by a
\* step whose only file access is the listing of the top-level names (none
\* when track_ids is already held); these fields of T never change later.
C15_TracksMirrorTheCollection ==
    [][\A id \in DOMAIN tracks' :
          /\ coll'.track_ids # None
          /\ id \in Range(coll'.track_ids[1])
          /\ tracks'[id].track_id = id
          /\ tracks'[id].group_name = id
          /\ tracks'[id].file_path = coll'.file_path
          /\ tracks'[id].species = coll'.species
          /\ id \in DOMAIN tracks =>
                 /\ tracks'[id].lazy = tracks[id].lazy
                 /\ tracks'[id].oid = tracks[id].oid
          /\ id \notin DOMAIN tracks =>
                 /\ last'.op = "getitem"
                 /\ last'.id = id
                 /\ last'.ret = Ok(tracks'[id].oid)
                 /\ tracks'[id].lazy = coll.lazy
                 /\ tracks'[id].available_keys = None
                 /\ tracks'[id].data_cache = << >>
                 /\ last'.io = IF coll.track_ids = None
                               THEN <<"open", "keys", "close">> ELSE <<>>]_vars

\* A lazy collection has just made the Track of an ID of its file.
C15_Witness ==
    /\ last.op = "getitem"
    /\ last.id = ID_2_5
    /\ last.io = <<>>
    /\ coll.lazy
    /\ ID_2_5 \in DOMAIN tracks
    /\ last.ret = Ok(tracks[ID_2_5].oid)
    /\ tracks[ID_2_5].lazy
    /\ tracks[ID_2_5].available_keys = None
    /\ tracks[ID_2_5].data_cache = << >>
    /\ DOMAIN tracks = {ID_2_5}

\* C16: repr(track) opens the file at most once, and not at all when the
\* Track already holds available_keys; it reads no dataset's shape, type or
\* content; it leaves data_cache as it was; it changes available_keys only
\* from unset to the listing of the group; and the text it returns names the
\* track, the species and every available dataset name exactly once, in
\* ascending string order.
C16_ReprReadsMetadataOnly ==
    [][\A id \in DOMAIN tracks :
          (last'.op = "repr" /\ last'.id = id) =>
              /\ Count(last'.io, "open") + Count(last'.io, "open_fail") <= 1
              /\ tracks[id].available_keys # None => last'.io = <<>>
              /\ \A e \in {"read", "shape", "dtype"} : Count(last'.io, e) = 0
              /\ tracks'[id].data_cache = tracks[id].data_cache
              /\ \/ tracks'[id].available_keys = tracks[id].available_keys
                 \/ /\ tracks[id].available_keys = None
                    /\ tracks'[id].available_keys = Some(file.groups[id].keys)
              /\ last'.ret.kind = "ok" =>
                     LET keys == last'.ret.val.args.keys IN
                     /\ tracks'[id].available_keys = Some(file.groups[id].keys)
                     /\ IsPermutation(keys, file.groups[id].keys)
                     /\ \A i \in 1..(Len(keys) - 1) : StrLess(keys[i], keys[i + 1])
                     /\ last'.ret.val.args.track_id = id
                     /\ last'.ret.val.args.species = coll.species]_vars

\* The first repr of a Track whose group lists its datasets out of order.
C16_Witness ==
    /\ last.op = "repr"
    /\ last.id = ID_10_1
    /\ last.io = <<"open", "keys", "close">>
    /\ file.groups[ID_10_1].keys = <<DS_x1, DS__h, DS_en>>
    /\ last.ret.kind = "ok"
    /\ last.ret.val.args.keys = <<DS__h, DS_en, DS_x1>>
    /\ tracks[ID_10_1].data_cache = << >>

ParseFailure ==
    Raise("ValueError", "invalid literal for int() with base 10", [ids |-> file.ids])

\* C18: over a file with a top-level name that does not parse, track_ids is
\* never held and the collection never holds a Track; every track_ids and
\* every collection[t], also for a well-formed t that the file holds, opens
\* the file again and, unless the file access itself fails, ends in the
\* parse failure, the same one as the access before it.
C18_ParseFailureIsNotRecovered ==
    [][~AllKeysOk(file.ids) =>
          /\ coll'.track_ids = None
          /\ tracks' = << >>
          /\ last'.op \in {"track_ids", "getitem"}
          /\ last'.ret.kind = "raise"
          /\ Count(last'.io, "open") + Count(last'.io, "open_fail") = 1
          /\ NoIoFailure(last'.io) =>
                 /\ last'.io = <<"open", "keys", "close">>
                 /\ last'.ret = ParseFailure
                 /\ Raised(last.ret, "ValueError") => last'.ret = last.ret]_vars

\* The lookup of a well-formed ID that the file holds ended in the parse
\* failure of another name of the file.
C18_Witness ==
    /\ ~AllKeysOk(file.ids)
    /\ last.op = "getitem"
    /\ last.id = ID_2_5
    /\ ID_2_5 \in Range(file.ids)
    /\ last.ret = ParseFailure
    /\ last.io = <<"open", "keys", "close">>
    /\ coll.track_ids = None
    /\ tracks = << >>

Finished(tk) == tk.pc \in {"done", "failed"}

\* C12: with calls of loader() for the same or different keys, on the same or
\* different Tracks, running step by step in any interleaving: a call that is
\* inside its block holds a handle that it opened itself, read-only, on the
\* Track's file, and that no other call holds; what it read, it read through
\* that handle; a call that finished has closed its handle; a call that
\* returned yields the content the file holds for its own key, and a call
\* fails only when its own file access failed; the number of open handles is
\* the number of calls inside their blocks, zero once all have finished.
C12_EachComputationUsesItsOwnHandle ==
    /\ handles = Cardinality(fds)
    /\ Cardinality(fds) = Cardinality({i \in 1..Len(tasks) :
                                          tasks[i].pc \in {"opened", "read", "raised"}})
    /\ (\A i \in 1..Len(tasks) : Finished(tasks[i])) => handles = 0 /\ fds = {}
    /\ \A i \in 1..Len(tasks) :
          /\ tasks[i].pc \in {"opened", "read", "raised"} =>
                 \E g \in fds : /\ g.id = tasks[i].f
                                /\ g.mode = "r"
                                /\ g.path = tracks[tasks[i].self].file_path
          /\ tasks[i].f # 0 => \A j \in 1..Len(tasks) : j # i => tasks[j].f # tasks[i].f
          /\ tasks[i].via # 0 => tasks[i].via = tasks[i].f
          /\ Finished(tasks[i]) => ~IsOpen(fds, tasks[i].f)
          /\ tasks[i].pc \in {"read", "done"} =>
                 tasks[i].ret = Some(Ok(EagerContent(tracks[tasks[i].self], tasks[i].k)))
          /\ tasks[i].pc \in {"raised", "failed"} =>
                 tasks[i].ret \in {Some(IoError("open_fails")), Some(IoError("body_fails"))}

\* Two computations on one Track inside their blocks at once: the second has
\* read the content of its key while the first still holds its handle.
C12_Witness ==
    /\ Len(tasks) = 2
    /\ tasks[1].self = ID_10_1 /\ tasks[1].k = DS_x1 /\ tasks[1].pc = "opened"
    /\ tasks[2].self = ID_10_1 /\ tasks[2].k = DS_en /\ tasks[2].pc = "read"
    /\ IsOpen(fds, tasks[1].f) /\ IsOpen(fds, tasks[2].f)
    /\ tasks[2].via = tasks[2].f
    /\ tasks[2].ret = Some(Ok(EagerContent(tracks[ID_10_1], DS_en)))
    /\ handles = 2

====
